---- MODULE Spec2Model ----
(***************************************************************************)
(* Model of the scoring / analysis engine of Sports-Vision                 *)
(* (src/server/services/perplexity.ts: scoreEvidenceWithAI, heuristicScore,*)
(* analyzeGame, analyzeAndUpdateGame, analyzeSlate) over the storage layer *)
(* of src/server/services/nflApi.ts (DatabaseStorage).                     *)
(*                                                                         *)
(* Units.  The code computes with IEEE doubles; the model computes the     *)
(* same expressions exactly, over integers:                                *)
(*   - a weight is a percentage 0..100, a score a number 0..10;            *)
(*   - a contribution (score/10)*(weight/100) is kept in thousandths,      *)
(*     score*weight; the home-field bonus (w/100)*1.5 is 15*w thousandths; *)
(*   - featureValue (home+away)/2 is kept in halves (home+away);           *)
(*   - the rounded totals of the result are kept in hundredths.            *)
(* A JS number is a record [k, v]: k = "num" with value v, k = "nan" for   *)
(* NaN, k = "null" for null / undefined.                                   *)
(***************************************************************************)
EXTENDS Integers, Sequences, FiniteSets, TLC

VARIABLES
    games,       \* table games: id -> row
    frameworks,  \* table frameworks: id -> row
    evidence,    \* table evidence: gameId -> rows, in getEvidence order
    whyFactors,  \* table why_factors: sequence of rows (insertion order)
    slates,      \* table slates: id -> row
    call,        \* per caller: the running analyzeAndUpdateGame activation
    slateRun,    \* the running analyzeSlate activation
    enrichRun    \* the running POST /api/slates/:slateId/enrich request

vars == <<games, frameworks, evidence, whyFactors, slates, call, slateRun, enrichRun>>

----------------------------------------------------------------------------
(* Bounds of the model *)

MaxEvidence == 2
MaxRuns == 2
MaxGames == 3

----------------------------------------------------------------------------
(* JS values *)

Num(x) == [k |-> "num", v |-> x]
NaN == [k |-> "nan", v |-> 0]
Null == [k |-> "null", v |-> 0]
JAbsent == [k |-> "absent", v |-> 0]
JStr == [k |-> "str", v |-> 0]

IsNum(x) == x.k = "num"

Min(a, b) == IF a <= b THEN a ELSE b
Max(a, b) == IF a >= b THEN a ELSE b

Add(a, b) == IF IsNum(a) /\ IsNum(b) THEN Num(a.v + b.v) ELSE NaN
Sub(a, b) == IF IsNum(a) /\ IsNum(b) THEN Num(a.v - b.v) ELSE NaN
Scale(a, n) == IF IsNum(a) THEN Num(a.v * n) ELSE NaN

\* Math.round(n / d) for d > 0: halves round towards +Infinity
MathRound(n, d) == (2 * n + d) \div (2 * d)

\* Math.min(10, Math.max(0, x)); NaN for an operand that is not a number
Clamp10(x) == IF IsNum(x) THEN Num(Min(10, Max(0, x.v))) ELSE NaN

\* f.homeScore || 5 : absent, null and 0 are falsy, any other value is kept
OrFive(raw) ==
    IF raw.k = "absent" \/ (raw.k = "num" /\ raw.v = 0) THEN Num(5)
    ELSE IF raw.k = "num" THEN raw ELSE NaN

AiClampScore(raw) == Clamp10(OrFive(raw))

null == "null"
NoText == [id |-> "", words |-> {}]

----------------------------------------------------------------------------
(* Evidence Categorizer *)

FACTOR_TO_CATEGORY == <<
    [factor |-> "qbRating", keywords |-> << <<"q","b">>, <<"q","u","a","r","t","e","r","b","a","c","k">> >>],
    [factor |-> "defense", keywords |-> << <<"d","e","f","e","n","s","e">>, <<"d","e","f","e","n","s","i","v","e">> >>],
    [factor |-> "injuries", keywords |-> << <<"i","n","j","u","r","y">>, <<"i","n","j","u","r","i","e","s">> >>],
    [factor |-> "strengthOfSchedule", keywords |-> << <<"s","o","s">>, <<"s","c","h","e","d","u","l","e">> >>],
    [factor |-> "homeField", keywords |-> << <<"h","o","m","e">>, <<"h","o","m","e","f","i","e","l","d">> >>],
    [factor |-> "motivation", keywords |-> << <<"m","o","t","i","v","a","t","i","o","n">>, <<"r","i","v","a","l","r","y">> >>],
    [factor |-> "portal", keywords |-> << <<"p","o","r","t","a","l">>, <<"t","r","a","n","s","f","e","r">> >>],
    [factor |-> "coaching", keywords |-> << <<"c","o","a","c","h","i","n","g">>, <<"c","o","a","c","h">> >>],
    [factor |-> "weather", keywords |-> << <<"w","e","a","t","h","e","r">> >>],
    [factor |-> "marketMovement", keywords |-> << <<"m","a","r","k","e","t">>, <<"o","d","d","s">>, <<"l","i","n","e">> >>]
>>

General == <<"g","e","n","e","r","a","l">>

\* String.prototype.toLowerCase on the characters the model uses
LowerChar(c) ==
    CASE c = "Q" -> "q" [] c = "B" -> "b" [] c = "D" -> "d" [] c = "I" -> "i"
      [] c = "H" -> "h" [] c = "L" -> "l" [] OTHER -> c

toLowerCase(s) == [i \in 1..Len(s) |-> LowerChar(s[i])]

\* String.prototype.includes
includes(s, kw) ==
    \E i \in 1..(Len(s) - Len(kw) + 1) : SubSeq(s, i, i + Len(kw) - 1) = kw

\* ev.category?.toLowerCase() || "general"
CategoryKey(ev) == IF Len(ev.category) = 0 THEN General ELSE toLowerCase(ev.category)

RECURSIVE categorizeInto(_, _)
categorizeInto(evs, acc) ==
    IF evs = <<>> THEN acc
    ELSE LET e == Head(evs)
             key == CategoryKey(e)
             at == {i \in 1..Len(acc) : acc[i].category = key}
         IN categorizeInto(Tail(evs),
                IF at = {} THEN Append(acc, [category |-> key, items |-> <<e>>])
                ELSE LET i == CHOOSE j \in at : TRUE
                     IN [acc EXCEPT ![i].items = Append(@, e)])

\* the groups in Object.entries order (first appearance of the category)
categorizeEvidence(evs) == categorizeInto(evs, <<>>)

mapEvidenceCategoryToFactorExact(category) ==
    LET catLower == toLowerCase(category)
        hits == {i \in 1..Len(FACTOR_TO_CATEGORY) :
                    \E k \in 1..Len(FACTOR_TO_CATEGORY[i].keywords) :
                        catLower = FACTOR_TO_CATEGORY[i].keywords[k]}
    IN IF hits = {} THEN null
       ELSE FACTOR_TO_CATEGORY[CHOOSE i \in hits : \A j \in hits : i <= j].factor

mapEvidenceCategoryToFactorLast(category) ==
    LET catLower == toLowerCase(category)
        hits == {i \in 1..Len(FACTOR_TO_CATEGORY) :
                    \E k \in 1..Len(FACTOR_TO_CATEGORY[i].keywords) :
                        includes(catLower, FACTOR_TO_CATEGORY[i].keywords[k])}
    IN IF hits = {} THEN null
       ELSE FACTOR_TO_CATEGORY[CHOOSE i \in hits : \A j \in hits : i >= j].factor

mapEvidenceCategoryToFactor(category) ==
    LET catLower == toLowerCase(category)
        hits == {i \in 1..Len(FACTOR_TO_CATEGORY) :
                    \E k \in 1..Len(FACTOR_TO_CATEGORY[i].keywords) :
                        includes(catLower, FACTOR_TO_CATEGORY[i].keywords[k])}
    IN IF hits = {} THEN null
       ELSE FACTOR_TO_CATEGORY[CHOOSE i \in hits : \A j \in hits : i <= j].factor

----------------------------------------------------------------------------
(* Factor Scorer *)

positiveRegex == {"strong", "excellent", "advantage", "dominant", "leading", "top",
                  "best", "improved", "healthy", "returning", "win"}
negativeRegex == {"weak", "poor", "struggling", "injury", "injured", "out", "missing",
                  "loss", "concern", "problem", "questionable"}

\* toLowerCase on a word of a text or on a team name
LowerWord(w) == CASE w = "Hawks" -> "hawks" [] w = "Owls" -> "owls" [] OTHER -> w

\* (ev.fullContent || ev.snippet || ev.headline || "").toLowerCase(), as its words
ContentOf(ev) ==
    LET t == IF ev.fullContent.id # "" THEN ev.fullContent
             ELSE IF ev.snippet.id # "" THEN ev.snippet
             ELSE ev.headline
    IN {LowerWord(w) : w \in t.words}

\* the effect of one evidence item on [homeScore, awayScore]
ScoreItem(sc, ev, homeTeam, awayTeam) ==
    LET content == ContentOf(ev)
        mentionsHome == LowerWord(homeTeam) \in content
        mentionsAway == LowerWord(awayTeam) \in content
        isPositive == content \cap positiveRegex # {}
        isNegative == content \cap negativeRegex # {}
        delta == (IF isPositive THEN 1 ELSE 0) - (IF isNegative THEN 1 ELSE 0)
    IN IF mentionsHome /\ ~mentionsAway THEN [sc EXCEPT !.homeScore = @ + delta]
       ELSE IF mentionsAway /\ ~mentionsHome THEN [sc EXCEPT !.awayScore = @ + delta]
       ELSE sc

RECURSIVE ScoreItems(_, _, _, _)
ScoreItems(sc, items, homeTeam, awayTeam) ==
    IF items = <<>> THEN sc
    ELSE ScoreItems(ScoreItem(sc, Head(items), homeTeam, awayTeam), Tail(items),
                    homeTeam, awayTeam)

\* the non-empty values of a field of the items, in item order
RECURSIVE Pushed(_, _)
Pushed(items, field) ==
    IF items = <<>> THEN <<>>
    ELSE LET x == IF field = "headline" THEN Head(items).headline.id ELSE Head(items).source
         IN IF x # "" THEN <<x>> \o Pushed(Tail(items), field) ELSE Pushed(Tail(items), field)

\* Array.from(new Set(xs)): first occurrences, in order
RECURSIVE Distinct(_)
Distinct(xs) ==
    IF xs = <<>> THEN <<>>
    ELSE LET init == Distinct(SubSeq(xs, 1, Len(xs) - 1))
             x == xs[Len(xs)]
         IN IF \E i \in 1..Len(init) : init[i] = x THEN init ELSE Append(init, x)

\* xs.slice(0, n)
slice(xs, n) == SubSeq(xs, 1, Min(n, Len(xs)))

KeyFactsOf(items) == slice(Pushed(items, "headline"), 3)
CitationsOf(items) == slice(Distinct(Pushed(items, "source")), 3)

\* the FactorScore of one category group, <<>> when the category maps to no factor
GroupScore(g, homeTeam, awayTeam) ==
    LET sc == ScoreItems([homeScore |-> 5, awayScore |-> 5], g.items, homeTeam, awayTeam)
        factor == mapEvidenceCategoryToFactor(g.category)
    IN IF factor = null THEN <<>>
       ELSE << [category |-> factor,
                homeScore |-> Clamp10(Num(sc.homeScore)),
                awayScore |-> Clamp10(Num(sc.awayScore)),
                reasoning |-> [text |-> "Based on N evidence items in", n |-> Len(g.items),
                               category |-> g.category],
                keyFacts |-> KeyFactsOf(g.items),
                citations |-> CitationsOf(g.items)] >>

RECURSIVE GroupScores(_, _, _)
GroupScores(groups, homeTeam, awayTeam) ==
    IF groups = <<>> THEN <<>>
    ELSE GroupScore(Head(groups), homeTeam, awayTeam)
            \o GroupScores(Tail(groups), homeTeam, awayTeam)

heuristicScore(evs, homeTeam, awayTeam) ==
    GroupScores(categorizeEvidence(evs), homeTeam, awayTeam)

\* What the AI call and the parse of its response come to.  kind "ok": the
\* response parsed and result.factors || [] is the list `factors`; every other
\* kind is an exception raised inside the try block.
AiFailures == {"networkError", "malformedJson", "factorsNotArray", "nullEntry"}

AiFactor(f) ==
    [category |-> IF f.category = "" THEN "general" ELSE f.category,
     homeScore |-> AiClampScore(f.homeScore),
     awayScore |-> AiClampScore(f.awayScore),
     reasoning |-> [text |-> "", n |-> 0, category |-> <<>>],
     keyFacts |-> <<>>,
     citations |-> <<>>]

ScoreFallbackNone(evs, homeTeam, awayTeam, ai) ==
    IF evs = <<>> THEN <<>>
    ELSE IF ai.kind = "ok" THEN [i \in 1..Len(ai.factors) |-> AiFactor(ai.factors[i])]
    ELSE <<>>

scoreEvidenceWithAI(evs, homeTeam, awayTeam, ai) ==
    IF evs = <<>> THEN <<>>
    ELSE IF ai.kind = "ok" THEN [i \in 1..Len(ai.factors) |-> AiFactor(ai.factors[i])]
    ELSE heuristicScore(evs, homeTeam, awayTeam)

----------------------------------------------------------------------------
(* Weighted Aggregator: the computation of analyzeGame *)

\* Object.entries(weights): the keys of the stored mapping, in its key order
FactorOrder == <<"defense", "weather", "momentum", "qbRating", "homeField">>

Desc(t) == [text |-> t, n |-> 0, category |-> <<>>]

\* weights.homeField ?? 0
HomeFieldDefaultTen(weights) ==
    IF "homeField" \in DOMAIN weights THEN weights["homeField"] ELSE 10

HomeFieldWeight(weights) ==
    IF "homeField" \in DOMAIN weights THEN weights["homeField"] ELSE 0

\* (homeFieldWeight / 100) * 1.5, in thousandths
HomeFieldBonusFlat(w) == 10 * w

HomeFieldBonus(w) == 15 * w

\* the totals and the whyFactors after the home-field special case
HomeFieldStep(weights) ==
    LET w == HomeFieldWeight(weights)
    IN IF w > 0
       THEN [totalHomeScore |-> Num(HomeFieldBonus(w)),
             totalAwayScore |-> Num(0),
             totalWeight |-> w,
             whyFactors |-> << [category |-> "homeField", weight |-> w,
                                featureValue |-> Num(14),
                                contribution |-> Num(HomeFieldBonus(w)),
                                description |-> Desc("Home field advantage provides inherent edge"),
                                keyFacts |-> <<"Playing at home stadium", "Crowd support advantage">>,
                                citations |-> <<>>,
                                favoredTeam |-> "home"] >>]
       ELSE [totalHomeScore |-> Num(0), totalAwayScore |-> Num(0), totalWeight |-> 0,
             whyFactors |-> <<>>]

\* factorScores.find((f) => f.category === factor): the index, 0 for undefined
FindScore(factorScores, factor) ==
    LET at == {i \in 1..Len(factorScores) : factorScores[i].category = factor}
    IN IF at = {} THEN 0 ELSE CHOOSE i \in at : \A j \in at : i <= j

FavoredTeamInclusive(net) ==
    IF IsNum(net) /\ net.v >= 50 THEN "home"
    ELSE IF IsNum(net) /\ net.v <= -50 THEN "away"
    ELSE "neutral"

\* netContribution > 0.05 ? "home" : netContribution < -0.05 ? "away" : "neutral"
FavoredTeam(net) ==
    IF IsNum(net) /\ net.v > 50 THEN "home"
    ELSE IF IsNum(net) /\ net.v < -50 THEN "away"
    ELSE "neutral"

FactorStepSkipUnscored(acc, factor, weight, factorScores) ==
    IF weight = 0 \/ factor = "homeField" THEN acc
    ELSE LET i == FindScore(factorScores, factor)
         IN IF i # 0
            THEN LET fs == factorScores[i]
                     homeContribution == Scale(fs.homeScore, weight)
                     awayContribution == Scale(fs.awayScore, weight)
                     netContribution == Sub(homeContribution, awayContribution)
                 IN [totalHomeScore |-> Add(acc.totalHomeScore, homeContribution),
                     totalAwayScore |-> Add(acc.totalAwayScore, awayContribution),
                     totalWeight |-> acc.totalWeight + weight,
                     whyFactors |-> Append(acc.whyFactors,
                        [category |-> factor, weight |-> weight,
                         featureValue |-> Add(fs.homeScore, fs.awayScore),
                         contribution |-> netContribution,
                         description |-> fs.reasoning,
                         keyFacts |-> fs.keyFacts,
                         citations |-> fs.citations,
                         favoredTeam |-> FavoredTeam(netContribution)])]
            ELSE acc

\* one iteration of the factor loop
FactorStep(acc, factor, weight, factorScores) ==
    IF weight = 0 \/ factor = "homeField" THEN acc
    ELSE LET i == FindScore(factorScores, factor)
         IN IF i # 0
            THEN LET fs == factorScores[i]
                     homeContribution == Scale(fs.homeScore, weight)
                     awayContribution == Scale(fs.awayScore, weight)
                     netContribution == Sub(homeContribution, awayContribution)
                 IN [totalHomeScore |-> Add(acc.totalHomeScore, homeContribution),
                     totalAwayScore |-> Add(acc.totalAwayScore, awayContribution),
                     totalWeight |-> acc.totalWeight + weight,
                     whyFactors |-> Append(acc.whyFactors,
                        [category |-> factor, weight |-> weight,
                         featureValue |-> Add(fs.homeScore, fs.awayScore),
                         contribution |-> netContribution,
                         description |-> fs.reasoning,
                         keyFacts |-> fs.keyFacts,
                         citations |-> fs.citations,
                         favoredTeam |-> FavoredTeam(netContribution)])]
            ELSE [acc EXCEPT
                     !.totalWeight = @ + weight,
                     !.whyFactors = Append(@,
                        [category |-> factor, weight |-> weight,
                         featureValue |-> Num(10),
                         contribution |-> Num(0),
                         description |-> Desc("No specific evidence available for this factor"),
                         keyFacts |-> <<>>,
                         citations |-> <<>>,
                         favoredTeam |-> "neutral"])]

RECURSIVE FactorLoop(_, _, _, _)
FactorLoop(acc, order, weights, factorScores) ==
    IF order = <<>> THEN acc
    ELSE LET f == Head(order)
         IN FactorLoop(IF f \in DOMAIN weights
                       THEN FactorStep(acc, f, weights[f], factorScores) ELSE acc,
                       Tail(order), weights, factorScores)

\* totalHomeScore, totalAwayScore, totalWeight and whyFactors after the loop
Totals(weights, factorScores) ==
    FactorLoop(HomeFieldStep(weights), FactorOrder, weights, factorScores)

\* !hasEvidenceBasedScoring || (factorScores.length === 0 && homeFieldWeight === 0)
InsufficientGe(weights, factorScores) ==
    LET homeFieldWeight == HomeFieldWeight(weights)
        hasEvidenceBasedScoring == Len(factorScores) > 0 \/ homeFieldWeight >= 0
    IN ~hasEvidenceBasedScoring

Insufficient(weights, factorScores) ==
    LET homeFieldWeight == HomeFieldWeight(weights)
        hasEvidenceBasedScoring == Len(factorScores) > 0 \/ homeFieldWeight > 0
    IN ~hasEvidenceBasedScoring \/ (Len(factorScores) = 0 /\ homeFieldWeight = 0)

Sentinel ==
    [pick |-> "", pickTeam |-> "home", confidenceLow |-> Num(0), confidenceHigh |-> Num(0),
     whyFactors |-> << [category |-> "baseline", weight |-> 0, featureValue |-> Num(10),
                        contribution |-> Num(0),
                        description |-> Desc("Insufficient evidence to make a confident recommendation. Run research to gather more data."),
                        keyFacts |-> <<>>, citations |-> <<>>,
                        favoredTeam |-> "neutral"] >>,
     totalHomeScore |-> Num(0), totalAwayScore |-> Num(0)]

\* scoreDiff >= 0 ? "home" : "away"
PickTeam(scoreDiff) == IF IsNum(scoreDiff) /\ scoreDiff.v >= 0 THEN "home" ELSE "away"

Abs(x) == IF x < 0 THEN -x ELSE x

\* Math.max(maxPossibleDiff, 0.1) in percent: the denominator of the confidence
ConfDen(totalWeight) == Max(totalWeight, 10)

\* baseConfidence * ConfDen(totalWeight):
\* Math.min(90, Math.max(50, 55 + normalizedDiff * 40))
BaseConfidenceNum(scoreDiff, totalWeight) ==
    LET m == ConfDen(totalWeight)
    IN Min(90 * m, Max(50 * m, 55 * m + 4 * Abs(scoreDiff)))

ConfidenceLowTen(scoreDiff, totalWeight) ==
    IF ~IsNum(scoreDiff) THEN NaN
    ELSE LET m == ConfDen(totalWeight)
         IN Num(MathRound(Max(30 * m, BaseConfidenceNum(scoreDiff.v, totalWeight) - 10 * m), m))

\* Math.round(Math.max(30, baseConfidence - 8))
ConfidenceLow(scoreDiff, totalWeight) ==
    IF ~IsNum(scoreDiff) THEN NaN
    ELSE LET m == ConfDen(totalWeight)
         IN Num(MathRound(Max(30 * m, BaseConfidenceNum(scoreDiff.v, totalWeight) - 8 * m), m))

\* Math.round(Math.min(95, baseConfidence + 8))
ConfidenceHighNoCap(scoreDiff, totalWeight) ==
    IF ~IsNum(scoreDiff) THEN NaN
    ELSE LET m == ConfDen(totalWeight)
         IN Num(MathRound(BaseConfidenceNum(scoreDiff.v, totalWeight) + 8 * m, m))

ConfidenceHigh(scoreDiff, totalWeight) ==
    IF ~IsNum(scoreDiff) THEN NaN
    ELSE LET m == ConfDen(totalWeight)
         IN Num(MathRound(Min(95 * m, BaseConfidenceNum(scoreDiff.v, totalWeight) + 8 * m), m))

\* Math.round(total * 100) / 100, in hundredths
Round2(total) == IF IsNum(total) THEN Num(MathRound(total.v, 10)) ELSE NaN

\* the AnalysisResult of analyzeGame for a game, a weight mapping and the scores
Analysis(game, weights, factorScores) ==
    LET t == Totals(weights, factorScores)
        scoreDiff == Sub(t.totalHomeScore, t.totalAwayScore)
        pickTeam == PickTeam(scoreDiff)
    IN IF Insufficient(weights, factorScores) THEN Sentinel
       ELSE [pick |-> IF pickTeam = "home" THEN game.homeTeam ELSE game.awayTeam,
             pickTeam |-> pickTeam,
             confidenceLow |-> ConfidenceLow(scoreDiff, t.totalWeight),
             confidenceHigh |-> ConfidenceHigh(scoreDiff, t.totalWeight),
             whyFactors |-> t.whyFactors,
             totalHomeScore |-> Round2(t.totalHomeScore),
             totalAwayScore |-> Round2(t.totalAwayScore)]

----------------------------------------------------------------------------
(* Storage: the tables and the DatabaseStorage operations used *)

GameIds == 1..MaxGames
FwIds == {"f1", "f2"}
SlateIds == {"s1"}
Callers == {"c1", "c2"}

Undefined == [undefined |-> TRUE]

\* no enrich request is running
IdleEnrich == [pc |-> "idle", slateId |-> "", games |-> <<>>, i |-> 0, results |-> <<>>]

\* a row of games as createGame leaves it (the column defaults)
NewGame(slateId) ==
    [slateId |-> slateId, homeTeam |-> "Hawks", awayTeam |-> "Owls",
     status |-> "pending", pick |-> null, pickLine |-> Null,
     confidenceLow |-> Null, confidenceHigh |-> Null,
     isLocked |-> FALSE, overrideReason |-> null, notes |-> null,
     frameworkVersion |-> Null]

getGame(id) == IF id \in DOMAIN games THEN games[id] ELSE Undefined

\* the ids of games of a slate, as getGames orders them
RECURSIVE SortedIds(_)
SortedIds(ids) ==
    IF ids = {} THEN <<>>
    ELSE LET m == CHOOSE x \in ids : \A y \in ids : x <= y
         IN <<m>> \o SortedIds(ids \ {m})

getGames(slateId) == SortedIds({id \in DOMAIN games : games[id].slateId = slateId})

\* the rows select ... where isActive = true may return first
ActiveFrameworks == {f \in DOMAIN frameworks : frameworks[f].isActive}

getEvidence(gameId) == evidence[gameId]

\* the rows of why_factors of a game, in table order
RECURSIVE RowsOf(_, _)
RowsOf(rows, gameId) ==
    IF rows = <<>> THEN <<>>
    ELSE IF Head(rows).gameId = gameId THEN <<Head(rows)>> \o RowsOf(Tail(rows), gameId)
    ELSE RowsOf(Tail(rows), gameId)

getWhyFactors(gameId) == RowsOf(whyFactors, gameId)

\* the rows left by delete from why_factors where gameId = ...
RECURSIVE RowsNotOf(_, _)
RowsNotOf(rows, gameId) ==
    IF rows = <<>> THEN <<>>
    ELSE IF Head(rows).gameId # gameId THEN <<Head(rows)>> \o RowsNotOf(Tail(rows), gameId)
    ELSE RowsNotOf(Tail(rows), gameId)

deleteWhyFactorsKeep(rows, gameId) == rows

deleteWhyFactors(rows, gameId) == RowsNotOf(rows, gameId)

----------------------------------------------------------------------------
(* Orchestrator: analyzeGame and analyzeAndUpdateGame, one action per await *)

IdleCall ==
    [pc |-> "idle", entry |-> "", owner |-> "", gameId |-> 0, game |-> Undefined,
     framework |-> Undefined, evidence |-> <<>>, ai |-> Undefined, factorScores |-> <<>>,
     scoreDiff |-> Num(0), totalWeight |-> 0, result |-> Undefined,
     framework2 |-> Undefined, updatedGame |-> Undefined, error |-> "", runs |-> 0,
     before |-> Undefined, prev |-> Undefined]

GameUpdateAlways(result, framework2) ==
    [pick |-> result.pick,
     confidenceLow |-> result.confidenceLow,
     confidenceHigh |-> result.confidenceHigh,
     frameworkVersion |-> IF framework2 = Undefined \/ framework2.version = 0
                          THEN Num(1) ELSE Num(framework2.version),
     status |-> "ready"]

\* the fields of games that analyzeAndUpdateGame sets
GameUpdate(result, framework2) ==
    LET hasValidPick == result.pick # ""
    IN [pick |-> IF hasValidPick THEN result.pick ELSE null,
        confidenceLow |-> IF hasValidPick THEN result.confidenceLow ELSE Null,
        confidenceHigh |-> IF hasValidPick THEN result.confidenceHigh ELSE Null,
        frameworkVersion |-> IF framework2 = Undefined \/ framework2.version = 0
                             THEN Num(1) ELSE Num(framework2.version),
        status |-> IF hasValidPick THEN "ready" ELSE "pending"]

\* storage.updateGame: the row with the given fields replaced
updateGame(row, u) ==
    [row EXCEPT !.pick = u.pick, !.confidenceLow = u.confidenceLow,
                !.confidenceHigh = u.confidenceHigh,
                !.frameworkVersion = u.frameworkVersion, !.status = u.status]

\* result.whyFactors.map(...) : the rows to insert
whyFactorInserts(gameId, result) ==
    [i \in 1..Len(result.whyFactors) |->
        LET wf == result.whyFactors[i]
        IN [gameId |-> gameId,
            category |-> wf.category,
            featureValue |-> wf.featureValue,
            contribution |-> wf.contribution,
            description |-> [weight |-> wf.weight, text |-> wf.description],
            keyFacts |-> wf.keyFacts,
            uncertaintyFlags |-> IF wf.favoredTeam = "neutral"
                                 THEN <<"Inconclusive evidence">> ELSE <<>>,
            citations |-> wf.citations]]

EmptyWeights == [f \in {} |-> 0]

\* the activation record of a call that has just been made
Started(g, entry, owner, runs, prev) ==
    [IdleCall EXCEPT !.pc = "getGame", !.entry = entry, !.owner = owner,
                     !.gameId = g, !.runs = runs,
                     !.before = [games |-> games, whyFactors |-> whyFactors],
                     !.prev = prev]

\* a request calls analyzeGame (entry "analyzeGame") or analyzeAndUpdateGame
Invoke(c, g, entry) ==
    /\ call[c].pc = "idle"
    /\ call[c].runs < MaxRuns
    /\ slateRun.pc = "idle"
    /\ call' = [call EXCEPT ![c] = Started(g, entry, "", call[c].runs + 1, call[c].prev)]
    /\ UNCHANGED <<games, frameworks, evidence, whyFactors, slates, slateRun, enrichRun>>

\* if (!game) throw new Error("Game not found")
GameMissing(game) == game = Undefined

\* if (!framework) throw new Error("No active framework found")
FrameworkMissingIgnored(framework) == FALSE

FrameworkMissing(framework) == framework = Undefined

\* const game = await storage.getGame(gameId)
GetGame(c) ==
    /\ call[c].pc = "getGame"
    /\ LET game == getGame(call[c].gameId)
       IN call' = [call EXCEPT ![c] =
            IF GameMissing(game)
            THEN [@ EXCEPT !.pc = "threw", !.error = "Game not found"]
            ELSE [@ EXCEPT !.pc = "getActiveFramework", !.game = game]]
    /\ UNCHANGED <<games, frameworks, evidence, whyFactors, slates, slateRun, enrichRun>>

\* const framework = await storage.getActiveFramework()
GetActiveFramework(c) ==
    /\ call[c].pc = "getActiveFramework"
    /\ \E framework \in IF ActiveFrameworks = {} THEN {Undefined}
                        ELSE {frameworks[f] : f \in ActiveFrameworks} :
          call' = [call EXCEPT ![c] =
            IF FrameworkMissing(framework)
            THEN [@ EXCEPT !.pc = "threw", !.error = "No active framework found"]
            ELSE [@ EXCEPT !.pc = "getEvidence", !.framework = framework]]
    /\ UNCHANGED <<games, frameworks, evidence, whyFactors, slates, slateRun, enrichRun>>

\* the rest of analyzeGame once factorScores is known: the result is returned to
\* the caller, or to analyzeAndUpdateGame, which goes on to its first await
Aggregated(rec, factorScores) ==
    LET weights == IF rec.framework = Undefined THEN EmptyWeights ELSE rec.framework.weights
        game == IF rec.game = Undefined THEN NewGame("") ELSE rec.game
        t == Totals(weights, factorScores)
    IN [rec EXCEPT !.factorScores = factorScores,
                   !.scoreDiff = Sub(t.totalHomeScore, t.totalAwayScore),
                   !.totalWeight = t.totalWeight,
                   !.result = Analysis(game, weights, factorScores),
                   !.pc = IF rec.entry = "analyzeGame" THEN "returned"
                          ELSE "getActiveFramework2"]

\* const evidence = await storage.getEvidence(gameId); with no evidence the
\* scorer is not called
GetEvidence(c) ==
    /\ call[c].pc = "getEvidence"
    /\ LET evs == getEvidence(call[c].gameId)
       IN call' = [call EXCEPT ![c] =
            IF Len(evs) > 0 THEN [@ EXCEPT !.pc = "score", !.evidence = evs]
            ELSE Aggregated([@ EXCEPT !.evidence = evs], <<>>)]
    /\ UNCHANGED <<games, frameworks, evidence, whyFactors, slates, slateRun, enrichRun>>

\* the responses of the AI call the model draws from
RawPairs == { <<JAbsent, JAbsent>>, <<Num(7), Num(3)>>, <<Num(3), Num(7)>>,
              <<Num(0), Num(10)>>, <<Num(12), Num(-2)>>, <<JStr, Num(3)>>,
              <<Num(6), Num(6)>> }

AiEntries == {[category |-> cat, homeScore |-> p[1], awayScore |-> p[2]] :
                cat \in {"qbRating", "defense", ""}, p \in RawPairs}

AiResponses ==
    {[kind |-> k, factors |-> <<>>] : k \in AiFailures \cup {"ok"}}
    \cup {[kind |-> "ok", factors |-> <<e>>] : e \in AiEntries}
    \cup {[kind |-> "ok",
           factors |-> << [category |-> "qbRating", homeScore |-> Num(7), awayScore |-> Num(3)],
                          [category |-> c, homeScore |-> Num(3), awayScore |-> Num(7)] >>] :
            c \in {"qbRating", "defense"}}

\* const factorScores = await scoreEvidenceWithAI(evidence, game.homeTeam, game.awayTeam),
\* the AI call coming to one of `responses`
ScoreFrom(c, responses) ==
    /\ call[c].pc = "score"
    /\ \E ai \in responses :
          call' = [call EXCEPT ![c] =
            Aggregated([@ EXCEPT !.ai = ai],
                       scoreEvidenceWithAI(@.evidence, @.game.homeTeam, @.game.awayTeam, ai))]
    /\ UNCHANGED <<games, frameworks, evidence, whyFactors, slates, slateRun, enrichRun>>

Score(c) == ScoreFrom(c, AiResponses)

\* analyzeAndUpdateGame: const framework = await storage.getActiveFramework()
GetActiveFramework2(c) ==
    /\ call[c].pc = "getActiveFramework2"
    /\ \E framework \in IF ActiveFrameworks = {} THEN {Undefined}
                        ELSE {frameworks[f] : f \in ActiveFrameworks} :
          call' = [call EXCEPT ![c] = [@ EXCEPT !.pc = "updateGame", !.framework2 = framework]]
    /\ UNCHANGED <<games, frameworks, evidence, whyFactors, slates, slateRun, enrichRun>>

\* const updatedGame = await storage.updateGame(gameId, {...})
UpdateGame(c) ==
    /\ call[c].pc = "updateGame"
    /\ LET g == call[c].gameId
           u == GameUpdate(call[c].result, call[c].framework2)
       IN IF g \in DOMAIN games
          THEN /\ games' = [games EXCEPT ![g] = updateGame(@, u)]
               /\ call' = [call EXCEPT ![c] = [@ EXCEPT !.pc = "deleteWhyFactors",
                                                        !.updatedGame = updateGame(games[g], u)]]
          ELSE /\ games' = games
               /\ call' = [call EXCEPT ![c] = [@ EXCEPT !.pc = "deleteWhyFactors"]]
    /\ UNCHANGED <<frameworks, evidence, whyFactors, slates, slateRun, enrichRun>>

\* await storage.deleteWhyFactors(gameId); createWhyFactors is skipped, and the
\* call returns, when there is nothing to insert
DeleteWhyFactors(c) ==
    /\ call[c].pc = "deleteWhyFactors"
    /\ whyFactors' = deleteWhyFactors(whyFactors, call[c].gameId)
    /\ call' = [call EXCEPT ![c] =
            [@ EXCEPT !.pc = IF Len(whyFactorInserts(call[c].gameId, call[c].result)) > 0
                             THEN "createWhyFactors" ELSE "returned"]]
    /\ UNCHANGED <<games, frameworks, evidence, slates, slateRun, enrichRun>>

\* await storage.createWhyFactors(whyFactorInserts); return updatedGame || null
CreateWhyFactors(c) ==
    /\ call[c].pc = "createWhyFactors"
    /\ whyFactors' = whyFactors \o whyFactorInserts(call[c].gameId, call[c].result)
    /\ call' = [call EXCEPT ![c] = [@ EXCEPT !.pc = "returned"]]
    /\ UNCHANGED <<games, frameworks, evidence, slates, slateRun, enrichRun>>

\* an awaited write (storage.updateGame, deleteWhyFactors, createWhyFactors)
\* rejects: the statement wrote nothing, and the exception leaves
\* analyzeAndUpdateGame, which has no try/catch
StorageFails(c) ==
    /\ call[c].pc \in {"updateGame", "deleteWhyFactors", "createWhyFactors"}
    /\ call' = [call EXCEPT ![c] = [@ EXCEPT !.pc = "threw", !.error = "storage error"]]
    /\ UNCHANGED <<games, frameworks, evidence, whyFactors, slates, slateRun, enrichRun>>

\* the caller has the outcome of its call; what the call left is remembered
Finish(c) ==
    /\ call[c].pc \in {"returned", "threw"}
    /\ call[c].owner = ""
    /\ call' = [call EXCEPT ![c] =
            [IdleCall EXCEPT !.runs = call[c].runs,
                             !.prev = [pc |-> call[c].pc, ai |-> call[c].ai,
                                       rows |-> getWhyFactors(call[c].gameId)]]]
    /\ UNCHANGED <<games, frameworks, evidence, whyFactors, slates, slateRun, enrichRun>>

----------------------------------------------------------------------------
(* analyzeSlate *)

IdleSlate == [pc |-> "idle", slateId |-> "", games |-> <<>>, i |-> 0, results |-> <<>>,
              error |-> ""]

\* a request calls analyzeSlate(slateId)
InvokeSlate(s) ==
    /\ slateRun.pc = "idle"
    /\ \A c \in Callers : call[c].pc = "idle"
    /\ slateRun' = [IdleSlate EXCEPT !.pc = "getGames", !.slateId = s]
    /\ UNCHANGED <<games, frameworks, evidence, whyFactors, slates, call, enrichRun>>

\* const games = await storage.getGames(slateId); the loop calls
\* analyzeAndUpdateGame for the first game, or returns [] for an empty slate
SlateGetGames ==
    /\ slateRun.pc = "getGames"
    /\ LET gs == getGames(slateRun.slateId)
       IN IF Len(gs) > 0
          THEN /\ slateRun' = [slateRun EXCEPT !.pc = "await", !.games = gs, !.i = 1]
               /\ call' = [call EXCEPT !["c1"] =
                        Started(gs[1], "analyzeAndUpdateGame", "slate", 0, Undefined)]
          ELSE /\ slateRun' = [slateRun EXCEPT !.pc = "returned", !.games = gs]
               /\ call' = call
    /\ UNCHANGED <<games, frameworks, evidence, whyFactors, slates, enrichRun>>

SlateResumeEarly ==
    /\ slateRun.pc = "await"
    /\ call["c1"].owner = "slate"
    /\ call["c1"].pc \in {"deleteWhyFactors", "createWhyFactors", "returned"}
    /\ LET updated == call["c1"].updatedGame
           results == IF updated # Undefined
                      THEN Append(slateRun.results, [id |-> call["c1"].gameId, game |-> updated])
                      ELSE slateRun.results
           i == slateRun.i + 1
       IN IF i <= Len(slateRun.games)
          THEN /\ slateRun' = [slateRun EXCEPT !.results = results, !.i = i]
               /\ call' = [call EXCEPT !["c1"] =
                        Started(slateRun.games[i], "analyzeAndUpdateGame", "slate", 0, Undefined)]
          ELSE /\ slateRun' = [slateRun EXCEPT !.results = results, !.i = i, !.pc = "returned"]
               /\ call' = [call EXCEPT !["c1"] = IdleCall]
    /\ UNCHANGED <<games, frameworks, evidence, whyFactors, slates, enrichRun>>

\* const updated = await analyzeAndUpdateGame(game.id) resumes with a value:
\* if (updated) results.push(updated); then the next game, or return results
SlateResume ==
    /\ slateRun.pc = "await"
    /\ call["c1"].owner = "slate"
    /\ call["c1"].pc = "returned"
    /\ LET updated == call["c1"].updatedGame
           results == IF updated # Undefined
                      THEN Append(slateRun.results, [id |-> call["c1"].gameId, game |-> updated])
                      ELSE slateRun.results
           i == slateRun.i + 1
       IN IF i <= Len(slateRun.games)
          THEN /\ slateRun' = [slateRun EXCEPT !.results = results, !.i = i]
               /\ call' = [call EXCEPT !["c1"] =
                        Started(slateRun.games[i], "analyzeAndUpdateGame", "slate", 0, Undefined)]
          ELSE /\ slateRun' = [slateRun EXCEPT !.results = results, !.i = i, !.pc = "returned"]
               /\ call' = [call EXCEPT !["c1"] = IdleCall]
    /\ UNCHANGED <<games, frameworks, evidence, whyFactors, slates, enrichRun>>

\* the awaited call throws: there is no try/catch in analyzeSlate, the
\* exception leaves the loop and the function
SlateThrow ==
    /\ slateRun.pc = "await"
    /\ call["c1"].owner = "slate"
    /\ call["c1"].pc = "threw"
    /\ slateRun' = [slateRun EXCEPT !.pc = "threw", !.error = call["c1"].error]
    /\ call' = [call EXCEPT !["c1"] = IdleCall]
    /\ UNCHANGED <<games, frameworks, evidence, whyFactors, slates, enrichRun>>

----------------------------------------------------------------------------
(* Other requests of the routes *)

\* DELETE /api/games/:id
DeleteGame(g) ==
    /\ g \in DOMAIN games
    /\ LET slateId == games[g].slateId
           rest == [x \in DOMAIN games \ {g} |-> games[x]]
       IN /\ games' = rest
          /\ slates' = IF slateId \in DOMAIN slates
                       THEN [slates EXCEPT ![slateId].gameCount =
                                Cardinality({x \in DOMAIN rest : rest[x].slateId = slateId})]
                       ELSE slates
    /\ UNCHANGED <<frameworks, evidence, whyFactors, call, slateRun, enrichRun>>

\* PATCH /api/frameworks/:id with body {isActive}
PatchFrameworkActive(f, b) ==
    /\ f \in DOMAIN frameworks
    /\ frameworks[f].isActive # b
    /\ frameworks' = [frameworks EXCEPT ![f].isActive = b]
    /\ UNCHANGED <<games, evidence, whyFactors, slates, call, slateRun, enrichRun>>

\* storage.updateGame(id, data) for any columns: the row with them replaced
PatchRow(row, data) == [f \in DOMAIN row |-> IF f \in DOMAIN data THEN data[f] ELSE row[f]]

\* POST /api/slates/:slateId/games with the two team names as body
CreateGame(g, s) ==
    /\ g \notin DOMAIN games
    /\ LET all == [x \in DOMAIN games \cup {g} |-> IF x = g THEN NewGame(s) ELSE games[x]]
       IN /\ games' = all
          /\ slates' = IF s \in DOMAIN slates
                       THEN [slates EXCEPT ![s].gameCount =
                                Cardinality({x \in DOMAIN all : all[x].slateId = s})]
                       ELSE slates
    /\ UNCHANGED <<frameworks, evidence, whyFactors, call, slateRun, enrichRun>>

\* POST /api/slates/:slateId/games/batch with one body entry per id of `ids`
\* (the ids the new rows get): gameCount becomes the number of rows created
CreateGamesBatch(ids, s) ==
    /\ ids \cap DOMAIN games = {}
    /\ games' = [x \in DOMAIN games \cup ids |-> IF x \in ids THEN NewGame(s) ELSE games[x]]
    /\ slates' = IF s \in DOMAIN slates
                 THEN [slates EXCEPT ![s].gameCount = Cardinality(ids)]
                 ELSE slates
    /\ UNCHANGED <<frameworks, evidence, whyFactors, call, slateRun, enrichRun>>

\* PATCH /api/games/:id with body `data`
PatchGame(g, data) ==
    /\ g \in DOMAIN games
    /\ games' = [games EXCEPT ![g] = PatchRow(@, data)]
    /\ UNCHANGED <<frameworks, evidence, whyFactors, slates, call, slateRun, enrichRun>>

\* POST /api/games/:id/lock
LockGame(g) ==
    /\ g \in DOMAIN games
    /\ games' = [games EXCEPT ![g] = PatchRow(@, [isLocked |-> TRUE])]
    /\ UNCHANGED <<frameworks, evidence, whyFactors, slates, call, slateRun, enrichRun>>

\* POST /api/games/:id/unlock
UnlockGame(g) ==
    /\ g \in DOMAIN games
    /\ games' = [games EXCEPT ![g] = PatchRow(@, [isLocked |-> FALSE])]
    /\ UNCHANGED <<frameworks, evidence, whyFactors, slates, call, slateRun, enrichRun>>

\* POST /api/games/:id/override; `body` has those of pick, pickLine and
\* overrideReason that the request gives (an undefined column is not written)
OverrideGame(g, body) ==
    /\ g \in DOMAIN games
    /\ games' = [games EXCEPT ![g] = PatchRow(PatchRow(@, body), [status |-> "override"])]
    /\ UNCHANGED <<frameworks, evidence, whyFactors, slates, call, slateRun, enrichRun>>

\* what researchGame comes to: it throws, or returns findings
ResearchOutcomes(findings) ==
    {[ok |-> FALSE, findings |-> <<>>]} \cup {[ok |-> TRUE, findings |-> f] : f \in findings}

\* storage.createEvidenceBatch: the rows are the newest of the game
createEvidenceBatch(g, items) == [evidence EXCEPT ![g] = items \o @]

\* POST /api/games/:gameId/research; a failed researchGame answers 500 and
\* writes nothing
ResearchGame(g, findings) ==
    /\ g \in DOMAIN games
    /\ \E o \in ResearchOutcomes(findings) :
          IF o.ok
          THEN /\ Len(evidence[g]) + Len(o.findings) <= MaxEvidence
               /\ evidence' = createEvidenceBatch(g, o.findings)
               /\ games' = [games EXCEPT ![g] = PatchRow(@, [status |-> "ready"])]
          ELSE UNCHANGED <<evidence, games>>
    /\ UNCHANGED <<frameworks, whyFactors, slates, call, slateRun, enrichRun>>

\* POST /api/slates/:slateId/enrich: the slate is marked and its games fetched
EnrichStart(s) ==
    /\ enrichRun.pc = "idle"
    /\ s \in DOMAIN slates
    /\ slates' = [slates EXCEPT ![s].status = "enriching"]
    /\ LET gs == getGames(s)
       IN enrichRun' = [IdleEnrich EXCEPT !.pc = IF Len(gs) > 0 THEN "mark" ELSE "finish",
                                         !.slateId = s, !.games = gs, !.i = 1]
    /\ UNCHANGED <<games, frameworks, evidence, whyFactors, call, slateRun>>

\* await storage.updateGame(game.id, { status: "enriching" })
EnrichMark ==
    /\ enrichRun.pc = "mark"
    /\ LET g == enrichRun.games[enrichRun.i]
       IN games' = IF g \in DOMAIN games
                   THEN [games EXCEPT ![g] = PatchRow(@, [status |-> "enriching"])]
                   ELSE games
    /\ enrichRun' = [enrichRun EXCEPT !.pc = "research"]
    /\ UNCHANGED <<frameworks, evidence, whyFactors, slates, call, slateRun>>

\* researchGame returns and the game is set "ready", or it throws and the catch
\* records the failure; then the next game
EnrichResearch(findings) ==
    /\ enrichRun.pc = "research"
    /\ LET g == enrichRun.games[enrichRun.i]
           next == IF enrichRun.i < Len(enrichRun.games) THEN "mark" ELSE "finish"
       IN \E o \in ResearchOutcomes(findings) :
            IF o.ok
            THEN /\ Len(evidence[g]) + Len(o.findings) <= MaxEvidence
                 /\ evidence' = createEvidenceBatch(g, o.findings)
                 /\ games' = IF g \in DOMAIN games
                             THEN [games EXCEPT ![g] = PatchRow(@, [status |-> "ready"])]
                             ELSE games
                 /\ enrichRun' = [enrichRun EXCEPT
                        !.pc = next, !.i = @ + 1,
                        !.results = Append(@, [gameId |-> g, success |-> TRUE])]
            ELSE /\ UNCHANGED <<evidence, games>>
                 /\ enrichRun' = [enrichRun EXCEPT
                        !.pc = next, !.i = @ + 1,
                        !.results = Append(@, [gameId |-> g, success |-> FALSE])]
    /\ UNCHANGED <<frameworks, whyFactors, slates, call, slateRun>>

\* await storage.updateSlate(slateId, { status: "ready" }) and the response
EnrichFinish ==
    /\ enrichRun.pc = "finish"
    /\ slates' = [slates EXCEPT ![enrichRun.slateId].status = "ready"]
    /\ enrichRun' = IdleEnrich
    /\ UNCHANGED <<games, frameworks, evidence, whyFactors, call, slateRun>>

\* POST /api/frameworks with body `data`: the columns the body leaves out get
\* their defaults (version 1, isActive true, weights {})
CreateFramework(f, data) ==
    /\ f \notin DOMAIN frameworks
    /\ frameworks' = [x \in DOMAIN frameworks \cup {f} |->
                        IF x = f
                        THEN PatchRow([version |-> 1, isActive |-> TRUE,
                                       weights |-> EmptyWeights], data)
                        ELSE frameworks[x]]
    /\ UNCHANGED <<games, evidence, whyFactors, slates, call, slateRun, enrichRun>>

\* DELETE /api/frameworks/:id
DeleteFramework(f) ==
    /\ f \in DOMAIN frameworks
    /\ frameworks' = [x \in DOMAIN frameworks \ {f} |-> frameworks[x]]
    /\ UNCHANGED <<games, evidence, whyFactors, slates, call, slateRun, enrichRun>>

\* the Confidence cell of a CSV row: the two numbers printed before "%", or the
\* empty string when confidenceLow && confidenceHigh is falsy (null, 0 or NaN)
ConfidenceCell(game) ==
    LET truthy(x) == IsNum(x) /\ x.v # 0
    IN IF truthy(game.confidenceLow) /\ truthy(game.confidenceHigh)
       THEN [text |-> "low-high%", low |-> MathRound(game.confidenceLow.v * 100, 1),
             high |-> MathRound(game.confidenceHigh.v * 100, 1)]
       ELSE [text |-> "", low |-> 0, high |-> 0]

\* GET /api/slates/:slateId/export: the rows of the CSV below its header, one
\* for each game of games.filter(g => g.isLocked)
exportSlate(s) ==
    LET lockedGames == SelectSeq(getGames(s), LAMBDA g : games[g].isLocked)
    IN [i \in 1..Len(lockedGames) |->
            LET game == games[lockedGames[i]]
            IN [game |-> lockedGames[i],
                pick |-> IF game.pick = null THEN "" ELSE game.pick,
                confidence |-> ConfidenceCell(game)]]

\* PATCH /api/frameworks/:id with body `data`
PatchFramework(f, data) ==
    /\ f \in DOMAIN frameworks
    /\ PatchRow(frameworks[f], data) # frameworks[f]
    /\ frameworks' = [frameworks EXCEPT ![f] = PatchRow(@, data)]
    /\ UNCHANGED <<games, evidence, whyFactors, slates, call, slateRun, enrichRun>>

----------------------------------------------------------------------------
(* Inputs and specifications *)

SeqsUpTo(S, n) == UNION {[1..k -> S] : k \in 0..n}

FactorNames == {"homeField", "qbRating", "defense"}
WeightVals == {0, 10, 90}
ScenarioBWeights == "qbRating" :> 100

\* mappings with a factor name the engine does not know
UnknownNameMaps ==
    { "momentum" :> 10,
      ("momentum" :> 10) @@ ("qbRating" :> 90),
      ("momentum" :> 90) @@ ("homeField" :> 10),
      ("momentum" :> 0) @@ ("defense" :> 10) }

WeightMaps ==
    UNION {[S -> WeightVals] : S \in SUBSET FactorNames}
        \cup {ScenarioBWeights} \cup UnknownNameMaps

EvQbInjury ==
    [category |-> <<"q","b"," ","i","n","j","u","r","y">>,
     fullContent |-> NoText,
     snippet |-> [id |-> "sn1", words |-> {"Owls", "injured"}],
     headline |-> [id |-> "hl1", words |-> {"Owls", "quarterback"}],
     source |-> "espn"]

EvDefense ==
    [category |-> <<"D","e","f","e","n","s","e">>,
     fullContent |-> [id |-> "fc2", words |-> {"Hawks", "strong"}],
     snippet |-> [id |-> "sn2", words |-> {"Owls", "weak"}],
     headline |-> [id |-> "hl1", words |-> {"Owls", "quarterback"}],
     source |-> "espn"]

EvGeneral ==
    [category |-> <<>>,
     fullContent |-> NoText,
     snippet |-> NoText,
     headline |-> [id |-> "hl3", words |-> {"Hawks", "Owls", "win"}],
     source |-> "cbs"]

EvidenceItems == {EvQbInjury, EvDefense, EvGeneral}

\* a row of frameworks
FrameworkV(w, active, version) == [version |-> version, isActive |-> active, weights |-> w]

Framework(w, active) == FrameworkV(w, active, 2)

\* the store with game 1 (if `exists`), framework f1 in state fw ("active",
\* "inactive" or "none") with weights w, and the evidence evs for game 1
StoreWith(exists, row, fw, w, evs, rows) ==
    /\ games = [g \in (IF exists THEN {1} ELSE {}) |-> row]
    /\ frameworks = [f \in (IF fw = "none" THEN {} ELSE {"f1"}) |-> Framework(w, fw = "active")]
    /\ evidence = [g \in GameIds |-> IF g = 1 THEN evs ELSE <<>>]
    /\ whyFactors = rows
    /\ slates = [s \in SlateIds |-> [status |-> "draft", gameCount |-> IF exists THEN 1 ELSE 0]]
    /\ call = [c \in Callers |-> IdleCall]
    /\ slateRun = IdleSlate
    /\ enrichRun = IdleEnrich

Store(exists, fw, w, evs, rows) == StoreWith(exists, NewGame("s1"), fw, w, evs, rows)

ScenarioWeights == ("homeField" :> 10) @@ ("qbRating" :> 90)

\* analyzeGame on one game, over every weight mapping and evidence list
Init ==
    \/ \E w \in WeightMaps, evs \in SeqsUpTo(EvidenceItems, MaxEvidence) :
          Store(TRUE, "active", w, evs, <<>>)
    \/ \E exists \in BOOLEAN, fw \in {"inactive", "none"} :
          Store(exists, fw, ScenarioWeights, <<>>, <<>>)
    \/ Store(FALSE, "active", ScenarioWeights, <<>>, <<>>)

Next ==
    \/ Invoke("c1", 1, "analyzeGame")
    \/ GetGame("c1")
    \/ GetActiveFramework("c1")
    \/ GetEvidence("c1")
    \/ Score("c1")

Spec == Init /\ [][Next]_vars

\* rows of why_factors an earlier analysis of game 1 left (the sentinel's row)
StaleRows == whyFactorInserts(1, Sentinel)

UpdateWeightMaps ==
    { ScenarioWeights,
      ("qbRating" :> 90) @@ ("defense" :> 10),
      ("homeField" :> 0) @@ ("qbRating" :> 0),
      EmptyWeights }

\* game 1 and its rows as an analysis under ScenarioWeights without evidence
\* left them
AnalyzedGame ==
    updateGame(NewGame("s1"),
               GameUpdate(Analysis(NewGame("s1"), ScenarioWeights, <<>>),
                          Framework(ScenarioWeights, TRUE)))

AnalyzedRows == whyFactorInserts(1, Analysis(NewGame("s1"), ScenarioWeights, <<>>))

\* analyzeAndUpdateGame on game 1, called up to MaxRuns times in succession
InitUpdate ==
    \E exists \in BOOLEAN, fw \in {"active", "inactive", "none"},
       w \in UpdateWeightMaps, evs \in SeqsUpTo({EvQbInjury}, MaxEvidence),
       left \in {<<NewGame("s1"), <<>> >>, <<NewGame("s1"), StaleRows>>,
                 <<AnalyzedGame, AnalyzedRows>>} :
          StoreWith(exists, left[1], fw, w, evs, left[2])

NextUpdate ==
    \/ Invoke("c1", 1, "analyzeAndUpdateGame")
    \/ GetGame("c1")
    \/ GetActiveFramework("c1")
    \/ GetEvidence("c1")
    \/ Score("c1")
    \/ GetActiveFramework2("c1")
    \/ UpdateGame("c1")
    \/ DeleteWhyFactors("c1")
    \/ CreateWhyFactors("c1")
    \/ Finish("c1")

SpecUpdate == InitUpdate /\ [][NextUpdate]_vars

\* analyzeSlate over a slate of MaxGames games, while other requests delete
\* games and switch the framework on and off
InitSlate ==
    \E fw \in {"active", "inactive"}, w \in {ScenarioWeights, EmptyWeights} :
        /\ games = [g \in GameIds |-> NewGame("s1")]
        /\ frameworks = [f \in {"f1"} |-> Framework(w, fw = "active")]
        /\ evidence = [g \in GameIds |-> <<>>]
        /\ whyFactors = <<>>
        /\ slates = [s \in SlateIds |-> [status |-> "draft", gameCount |-> MaxGames]]
        /\ call = [c \in Callers |-> IdleCall]
        /\ slateRun = IdleSlate
        /\ enrichRun = IdleEnrich

NextSlate ==
    \/ InvokeSlate("s1")
    \/ SlateGetGames
    \/ SlateResume
    \/ SlateThrow
    \/ GetGame("c1")
    \/ GetActiveFramework("c1")
    \/ GetEvidence("c1")
    \/ GetActiveFramework2("c1")
    \/ UpdateGame("c1")
    \/ DeleteWhyFactors("c1")
    \/ CreateWhyFactors("c1")
    \/ \E g \in GameIds : DeleteGame(g)
    \/ \E b \in BOOLEAN : PatchFrameworkActive("f1", b)

SpecSlate == InitSlate /\ [][NextSlate]_vars

----------------------------------------------------------------------------
\* the requests on one game: it is created, researched, enriched, analyzed,
\* overridden, locked, unlocked and patched, in any order, each of the other
\* requests between two analyses
RouteAiResponses ==
    { [kind |-> "networkError", factors |-> <<>>],
      [kind |-> "ok",
       factors |-> << [category |-> "qbRating", homeScore |-> Num(3), awayScore |-> Num(7)] >>] }

RouteFindings == {<<>>, <<EvQbInjury>>}

RoutePatches == {[status |-> "pending"]}

AnalysisQuiet == \A c \in Callers : call[c].pc \in {"idle", "returned"}

InitRoutes ==
    \E exists \in BOOLEAN : Store(exists, "active", ScenarioWeights, <<>>, <<>>)

RouteRequest ==
    \/ CreateGame(1, "s1")
    \/ \E data \in RoutePatches : PatchGame(1, data)
    \/ LockGame(1)
    \/ UnlockGame(1)
    \/ OverrideGame(1, [pick |-> "Owls"])
    \/ ResearchGame(1, RouteFindings)
    \/ EnrichStart("s1")
    \/ EnrichMark
    \/ EnrichResearch(RouteFindings)
    \/ EnrichFinish

NextRoutes ==
    \/ AnalysisQuiet /\ RouteRequest
    \/ Invoke("c1", 1, "analyzeAndUpdateGame")
    \/ GetGame("c1")
    \/ GetActiveFramework("c1")
    \/ GetEvidence("c1")
    \/ ScoreFrom("c1", RouteAiResponses)
    \/ GetActiveFramework2("c1")
    \/ UpdateGame("c1")
    \/ DeleteWhyFactors("c1")
    \/ CreateWhyFactors("c1")

SpecRoutes == InitRoutes /\ [][NextRoutes]_vars

\* two requests analyze game 1 at the same time: their awaits interleave
InitConcurrent ==
    \E w \in {ScenarioWeights, ("qbRating" :> 90) @@ ("defense" :> 10)},
       evs \in SeqsUpTo({EvQbInjury}, 1),
       left \in {<<NewGame("s1"), <<>> >>, <<AnalyzedGame, AnalyzedRows>>} :
          StoreWith(TRUE, left[1], "active", w, evs, left[2])

NextConcurrent ==
    \E c \in Callers :
        \/ Invoke(c, 1, "analyzeAndUpdateGame")
        \/ GetGame(c)
        \/ GetActiveFramework(c)
        \/ GetEvidence(c)
        \/ ScoreFrom(c, RouteAiResponses)
        \/ GetActiveFramework2(c)
        \/ UpdateGame(c)
        \/ DeleteWhyFactors(c)
        \/ CreateWhyFactors(c)

SpecConcurrent == InitConcurrent /\ [][NextConcurrent]_vars

\* analyzeGame under the scheduling the code has: a storage call that was
\* awaited returns and the function goes on.  The AI call is awaited without a
\* timeout, so nothing makes the step Score happen: the service may stay silent.
InitLive ==
    \/ \E w \in UpdateWeightMaps, evs \in SeqsUpTo({EvQbInjury, EvDefense}, MaxEvidence) :
          Store(TRUE, "active", w, evs, <<>>)
    \/ \E exists \in BOOLEAN, fw \in {"inactive", "none"} :
          Store(exists, fw, ScenarioWeights, <<>>, <<>>)

SpecLive ==
    /\ InitLive
    /\ [][Next]_vars
    /\ WF_vars(GetGame("c1"))
    /\ WF_vars(GetActiveFramework("c1"))
    /\ WF_vars(GetEvidence("c1"))

\* analyzeAndUpdateGame over a store whose writes may fail
NextFaults ==
    \/ Invoke("c1", 1, "analyzeAndUpdateGame")
    \/ GetGame("c1")
    \/ GetActiveFramework("c1")
    \/ GetEvidence("c1")
    \/ ScoreFrom("c1", RouteAiResponses)
    \/ GetActiveFramework2("c1")
    \/ UpdateGame("c1")
    \/ DeleteWhyFactors("c1")
    \/ CreateWhyFactors("c1")
    \/ StorageFails("c1")
    \/ Finish("c1")

SpecFaults == InitUpdate /\ [][NextFaults]_vars

\* the bodies of PATCH /api/frameworks/:id: the framework is switched off or
\* on, or gets new weights under a new version
FrameworkPatches ==
    { [isActive |-> FALSE], [isActive |-> TRUE],
      [version |-> 3, weights |-> ("qbRating" :> 90) @@ ("defense" :> 10)] }

\* analyzeAndUpdateGame on game 1 while other requests patch the one framework
InitFramework ==
    \E evs \in SeqsUpTo({EvQbInjury}, MaxEvidence), w \in {ScenarioWeights, ScenarioBWeights} :
        /\ games = [g \in {1} |-> NewGame("s1")]
        /\ frameworks = [f \in {"f1"} |-> FrameworkV(w, TRUE, 2)]
        /\ evidence = [g \in GameIds |-> IF g = 1 THEN evs ELSE <<>>]
        /\ whyFactors = <<>>
        /\ slates = [s \in SlateIds |-> [status |-> "draft", gameCount |-> 1]]
        /\ call = [c \in Callers |-> IdleCall]
        /\ slateRun = IdleSlate
        /\ enrichRun = IdleEnrich

NextFramework ==
    \/ Invoke("c1", 1, "analyzeAndUpdateGame")
    \/ GetGame("c1")
    \/ GetActiveFramework("c1")
    \/ GetEvidence("c1")
    \/ ScoreFrom("c1", RouteAiResponses)
    \/ GetActiveFramework2("c1")
    \/ UpdateGame("c1")
    \/ DeleteWhyFactors("c1")
    \/ CreateWhyFactors("c1")
    \/ \E data \in FrameworkPatches : PatchFramework("f1", data)

SpecFramework == InitFramework /\ [][NextFramework]_vars

\* the heuristic path of analyzeGame over evidence of several categories: the
\* AI call fails and heuristicScore groups, maps and scores the evidence
CatQbInjury == <<"q","b"," ","i","n","j","u","r","y">>
CatDefensiveLine == <<"D","e","f","e","n","s","i","v","e"," ","L","i","n","e">>
CatHomeOdds == <<"h","o","m","e"," ","o","d","d","s">>
CatWeather == <<"w","e","a","t","h","e","r">>
CatRumor == <<"r","u","m","o","r">>

HeuristicCategories == {CatQbInjury, CatDefensiveLine, CatHomeOdds, CatWeather, CatRumor, <<>>}

HeuristicItems == {[EvQbInjury EXCEPT !.category = cat] : cat \in HeuristicCategories}

HeuristicAiResponses == {[kind |-> k, factors |-> <<>>] : k \in {"networkError", "malformedJson"}}

InitHeuristic ==
    \E w \in {ScenarioWeights, ("qbRating" :> 90) @@ ("defense" :> 10)},
       evs \in SeqsUpTo(HeuristicItems, MaxEvidence) :
          Store(TRUE, "active", w, evs, <<>>)

NextHeuristic ==
    \/ Invoke("c1", 1, "analyzeGame")
    \/ GetGame("c1")
    \/ GetActiveFramework("c1")
    \/ GetEvidence("c1")
    \/ ScoreFrom("c1", HeuristicAiResponses)

SpecHeuristic == InitHeuristic /\ [][NextHeuristic]_vars

\* the bodies of POST /api/frameworks
FrameworkBodies ==
    { [weights |-> ScenarioWeights],
      [weights |-> ScenarioBWeights, isActive |-> FALSE],
      [weights |-> ScenarioBWeights, isActive |-> TRUE] }

\* frameworks are created, patched and deleted while game 1 is analyzed
InitFrameworkSet ==
    \E fw \in {"active", "inactive", "none"} : Store(TRUE, fw, ScenarioWeights, <<>>, <<>>)

NextFrameworkSet ==
    \/ \E f \in FwIds, data \in FrameworkBodies : CreateFramework(f, data)
    \/ \E f \in FwIds, data \in FrameworkPatches : PatchFramework(f, data)
    \/ \E f \in FwIds : DeleteFramework(f)
    \/ Invoke("c1", 1, "analyzeGame")
    \/ GetGame("c1")
    \/ GetActiveFramework("c1")
    \/ GetEvidence("c1")
    \/ Finish("c1")

SpecFrameworkSet == InitFrameworkSet /\ [][NextFrameworkSet]_vars

\* the games of slate s1 are added one by one and in batches, deleted, locked,
\* unlocked and overridden
InitGameCount ==
    \E exists \in BOOLEAN : Store(exists, "active", ScenarioWeights, <<>>, <<>>)

NextGameCount ==
    \/ \E g \in GameIds : CreateGame(g, "s1")
    \/ \E ids \in SUBSET GameIds : CreateGamesBatch(ids, "s1")
    \/ \E g \in GameIds : DeleteGame(g)
    \/ \E g \in GameIds : LockGame(g)
    \/ \E g \in GameIds : UnlockGame(g)
    \/ \E g \in GameIds : OverrideGame(g, [pick |-> "Owls"])

SpecGameCount == InitGameCount /\ [][NextGameCount]_vars

(* Properties *)

Returned(c) == call[c].pc = "returned"

\* every FactorScore is a number in 0..10
ValidScores(factorScores) ==
    \A i \in 1..Len(factorScores) :
        /\ IsNum(factorScores[i].homeScore) /\ factorScores[i].homeScore.v \in 0..10
        /\ IsNum(factorScores[i].awayScore) /\ factorScores[i].awayScore.v \in 0..10

InBand(result) ==
    /\ IsNum(result.confidenceLow) /\ IsNum(result.confidenceHigh)
    /\ 30 <= result.confidenceLow.v
    /\ result.confidenceLow.v <= result.confidenceHigh.v
    /\ result.confidenceHigh.v <= 95

\* C1 as stated: every result analyzeGame returns on valid inputs has
\* 30 <= confidenceLow <= confidenceHigh <= 95.
C1_EveryResultInBand ==
    \A c \in Callers :
        Returned(c) /\ ValidScores(call[c].factorScores) => InBand(call[c].result)

\* C1 as amended: every result with a non-empty pick that analyzeGame returns on
\* valid inputs has 30 <= confidenceLow <= confidenceHigh <= 95, and the
\* insufficient-evidence result (empty pick) has confidenceLow = confidenceHigh = 0.
C1_PickResultInBand ==
    \A c \in Callers :
        Returned(c) /\ ValidScores(call[c].factorScores) =>
            IF call[c].result.pick # "" THEN InBand(call[c].result)
            ELSE /\ call[c].result.confidenceLow = Num(0)
                 /\ call[c].result.confidenceHigh = Num(0)

\* a pick whose confidence reaches the upper clamp: base 90, band 82..95
C1_Witness ==
    \E c \in Callers :
        /\ Returned(c) /\ ValidScores(call[c].factorScores)
        /\ call[c].result.pick # ""
        /\ call[c].result.confidenceLow = Num(82)
        /\ call[c].result.confidenceHigh = Num(95)

\* C2: when analyzeGame derives a pick with scoreDiff = 0 the pick is the home
\* team, and pickTeam is "away" only when scoreDiff < 0.
C2_TieBreakHome ==
    \A c \in Callers :
        Returned(c) /\ call[c].result.pick # "" =>
            /\ call[c].scoreDiff = Num(0) =>
                    /\ call[c].result.pickTeam = "home"
                    /\ call[c].result.pick = call[c].game.homeTeam
            /\ call[c].result.pickTeam = "away" =>
                    /\ IsNum(call[c].scoreDiff)
                    /\ call[c].scoreDiff.v < 0

AllZero(weights) == \A f \in DOMAIN weights : weights[f] = 0

\* C3: with no evidence and a framework whose weights are all zero, analyzeGame
\* returns the empty pick, confidence 0/0, zero totals and exactly one WhyFactor,
\* of category "baseline".
C3_InsufficientEvidence ==
    \A c \in Callers :
        Returned(c) /\ call[c].evidence = <<>> /\ AllZero(call[c].framework.weights) =>
            /\ call[c].result.pick = ""
            /\ call[c].result.confidenceLow = Num(0)
            /\ call[c].result.confidenceHigh = Num(0)
            /\ call[c].result.totalHomeScore = Num(0)
            /\ call[c].result.totalAwayScore = Num(0)
            /\ Len(call[c].result.whyFactors) = 1
            /\ call[c].result.whyFactors[1].category = "baseline"

\* no evidence and a mapping that has factors, all of weight zero
C3_Witness ==
    \E c \in Callers :
        /\ Returned(c) /\ call[c].evidence = <<>>
        /\ AllZero(call[c].framework.weights)
        /\ DOMAIN call[c].framework.weights = FactorNames
        /\ call[c].result.pick = ""

\* the factor names that can be added to a mapping
ExtraNames == FactorNames \cup {"weather"}

\* C4: adding one factor of weight 0 to the weight mapping (any name not yet in
\* it, homeField included) changes neither pick nor confidenceLow nor
\* confidenceHigh of the result of analyzeGame.
C4_ZeroWeightNoChange ==
    \A c \in Callers :
        Returned(c) =>
            \A f \in ExtraNames \ DOMAIN call[c].framework.weights :
                LET more == (f :> 0) @@ call[c].framework.weights
                    r == Analysis(call[c].game, more, call[c].factorScores)
                IN /\ r.pick = call[c].result.pick
                   /\ r.confidenceLow = call[c].result.confidenceLow
                   /\ r.confidenceHigh = call[c].result.confidenceHigh

\* a pick made from scored evidence under a mapping without homeField
C4_Witness ==
    \E c \in Callers :
        /\ Returned(c)
        /\ call[c].result.pick # ""
        /\ "homeField" \notin DOMAIN call[c].framework.weights
        /\ "qbRating" \in DOMAIN call[c].framework.weights
        /\ call[c].framework.weights["qbRating"] > 0
        /\ FindScore(call[c].factorScores, "qbRating") # 0

\* C5: a second analyzeAndUpdateGame right after a first one, with the same
\* evidence, framework and scorer response, leaves exactly the rows the first one
\* left for the game: the rows of its own result, once each.
C5_IdempotentReanalysis ==
    \A c \in Callers :
        /\ Returned(c)
        /\ call[c].entry = "analyzeAndUpdateGame"
        /\ call[c].prev # Undefined
        /\ call[c].prev.pc = "returned"
        /\ call[c].prev.ai = call[c].ai
        => /\ getWhyFactors(call[c].gameId) = call[c].prev.rows
           /\ getWhyFactors(call[c].gameId) = whyFactorInserts(call[c].gameId, call[c].result)

\* a second run over scored evidence that replaced a non-empty set of rows
C5_Witness ==
    \E c \in Callers :
        /\ Returned(c)
        /\ call[c].entry = "analyzeAndUpdateGame"
        /\ call[c].prev # Undefined
        /\ call[c].prev.pc = "returned"
        /\ call[c].prev.ai = call[c].ai
        /\ call[c].ai # Undefined
        /\ Len(call[c].prev.rows) = 2
        /\ Len(getWhyFactors(call[c].gameId)) = 2

\* C6: no exception of one game's analysis leaves analyzeSlate.
C6_SlateNeverThrows == slateRun.pc # "threw"

NotFoundErrors == {"Game not found", "No active framework found"}

\* C7: analyzeGame throws when the game is missing or no framework is active,
\* and a call of analyzeAndUpdateGame that ends so has written nothing: the games
\* and the why_factors rows are as they were when it was called.
C7_NotFoundNoWrite ==
    \A c \in Callers :
        /\ call[c].pc = "threw" =>
                /\ call[c].error \in NotFoundErrors
                /\ games = call[c].before.games
                /\ whyFactors = call[c].before.whyFactors
        /\ call[c].pc \notin {"idle", "getGame", "threw"} =>
                call[c].gameId \in DOMAIN call[c].before.games
        /\ call[c].pc \notin {"idle", "getGame", "getActiveFramework", "threw"} =>
                ActiveFrameworks # {}
        /\ call[c].pc = "threw" =>
                \/ call[c].gameId \notin DOMAIN games
                \/ ActiveFrameworks = {}

\* the call failed for want of an active framework and the game's rows are kept
C7_Witness ==
    \E c \in Callers :
        /\ call[c].pc = "threw"
        /\ call[c].entry = "analyzeAndUpdateGame"
        /\ call[c].error = "No active framework found"
        /\ getWhyFactors(call[c].gameId) = StaleRows
        /\ games[call[c].gameId] = NewGame("s1")

\* C8: when the AI call or the parse of its response fails, the scores are the
\* heuristic path's scores for the same evidence, and analyzeGame does not fail.
C8_FailureFallsBack ==
    \A c \in Callers :
        call[c].ai # Undefined /\ call[c].ai.kind \in AiFailures =>
            /\ call[c].pc # "threw"
            /\ call[c].factorScores =
                    heuristicScore(call[c].evidence, call[c].game.homeTeam, call[c].game.awayTeam)

\* a malformed response recovered with a heuristic score
C8_Witness ==
    \E c \in Callers :
        /\ Returned(c)
        /\ call[c].ai # Undefined
        /\ call[c].ai.kind = "malformedJson"
        /\ Len(call[c].factorScores) > 0
        /\ call[c].factorScores[1].awayScore = Num(4)

\* C9: every FactorScore has 0 <= homeScore <= 10 and 0 <= awayScore <= 10, on
\* the heuristic path and on the AI path for any returned value.
C9_ScoresInRange ==
    \A c \in Callers : ValidScores(call[c].factorScores)

\* C10: weights {homeField: 10, qbRating: 90} and no evidence give totalWeight
\* 100, two WhyFactors (homeField favoring home, qbRating neutral with
\* contribution 0), the home team as pick, normalizedDiff 0.15, baseConfidence 61
\* and the band 53..69.
C10_ScenarioA ==
    \A c \in Callers :
        /\ Returned(c)
        /\ call[c].framework.weights = ScenarioWeights
        /\ call[c].evidence = <<>>
        => LET r == call[c].result
           IN /\ call[c].totalWeight = 100
              /\ call[c].scoreDiff = Num(150)
              /\ BaseConfidenceNum(call[c].scoreDiff.v, call[c].totalWeight)
                    = 61 * ConfDen(call[c].totalWeight)
              /\ Len(r.whyFactors) = 2
              /\ r.whyFactors[1].category = "homeField"
              /\ r.whyFactors[1].favoredTeam = "home"
              /\ r.whyFactors[2].category = "qbRating"
              /\ r.whyFactors[2].favoredTeam = "neutral"
              /\ r.whyFactors[2].contribution = Num(0)
              /\ r.pickTeam = "home"
              /\ r.pick = call[c].game.homeTeam
              /\ r.confidenceLow = Num(53)
              /\ r.confidenceHigh = Num(69)

C10_Witness ==
    \E c \in Callers :
        /\ Returned(c)
        /\ call[c].framework.weights = ScenarioWeights
        /\ call[c].evidence = <<>>
        /\ call[c].result.pick = "Hawks"

\* an item of category "qb injury" whose text names only the away team, with
\* "injured" and no positive cue
QbInjuryAwayOnly(ev, game) ==
    /\ ev.category = <<"q","b"," ","i","n","j","u","r","y">>
    /\ LowerWord(game.awayTeam) \in ContentOf(ev)
    /\ LowerWord(game.homeTeam) \notin ContentOf(ev)
    /\ "injured" \in ContentOf(ev)
    /\ ContentOf(ev) \cap positiveRegex = {}

ScenarioB(c) ==
    /\ Returned(c)
    /\ call[c].ai # Undefined
    /\ call[c].ai.kind \in AiFailures
    /\ Len(call[c].evidence) = 1
    /\ QbInjuryAwayOnly(call[c].evidence[1], call[c].game)
    /\ call[c].framework.weights = ScenarioBWeights

\* C11: on the heuristic path, one "qb injury" item that names only the away
\* team and says "injured", under weights {qbRating: 100}, gives one FactorScore
\* (qbRating, home 5, away 4); analyzeGame picks the home team and the qbRating
\* WhyFactor favors "home".
C11_ScenarioB ==
    \A c \in Callers :
        ScenarioB(c) =>
            LET fs == call[c].factorScores
                r == call[c].result
            IN /\ Len(fs) = 1
               /\ fs[1].category = "qbRating"
               /\ fs[1].homeScore = Num(5)
               /\ fs[1].awayScore = Num(4)
               /\ r.pickTeam = "home"
               /\ r.pick = call[c].game.homeTeam
               /\ Len(r.whyFactors) = 1
               /\ r.whyFactors[1].category = "qbRating"
               /\ r.whyFactors[1].favoredTeam = "home"

C11_Witness ==
    \E c \in Callers :
        /\ ScenarioB(c)
        /\ call[c].ai.kind = "networkError"
        /\ call[c].scoreDiff = Num(100)
        /\ call[c].result.pick = "Hawks"

\* analyzeAndUpdateGame has made its update of the game, and the row is there
Persisted(c) ==
    /\ call[c].entry = "analyzeAndUpdateGame"
    /\ call[c].pc \in {"deleteWhyFactors", "createWhyFactors", "returned"}
    /\ call[c].gameId \in DOMAIN games

\* C12: analyzeAndUpdateGame persists status "ready" with the result's pick,
\* confidenceLow and confidenceHigh exactly when the result's pick is non-empty;
\* for the insufficient-evidence result it persists pick = null, confidenceLow =
\* null, confidenceHigh = null and status "pending".
C12_PersistPickOrPending ==
    \A c \in Callers :
        Persisted(c) =>
            LET r == call[c].result
                g == games[call[c].gameId]
            IN IF r.pick # ""
               THEN /\ g.status = "ready"
                    /\ g.pick = r.pick
                    /\ g.confidenceLow = r.confidenceLow
                    /\ g.confidenceHigh = r.confidenceHigh
               ELSE /\ r = Sentinel
                    /\ g.status = "pending"
                    /\ g.pick = null
                    /\ g.confidenceLow = Null
                    /\ g.confidenceHigh = Null

\* a game that was "ready" with a pick is analyzed again with nothing to go on,
\* and is back to "pending" without a pick
C12_Witness ==
    \E c \in Callers :
        /\ Persisted(c)
        /\ call[c].before.games[call[c].gameId] = AnalyzedGame
        /\ call[c].result = Sentinel
        /\ games[call[c].gameId].status = "pending"
        /\ games[call[c].gameId].pick = null

HasPick(row) == row.pick # null /\ row.pick # ""

\* C13: in every reachable state a game's pick is non-empty if and only if its
\* confidenceLow and confidenceHigh are non-null and its status is one of ready,
\* locked, override.
C13_PickIffConfidence ==
    \A g \in DOMAIN games :
        HasPick(games[g]) <=>
            /\ games[g].confidenceLow # Null
            /\ games[g].confidenceHigh # Null
            /\ games[g].status \in {"ready", "locked", "override"}

\* C14: once two concurrent analyzeAndUpdateGame calls on the same game have
\* both finished, the game's why_factors rows are the set written by exactly one
\* of the two runs: no row twice, no set missing.
C14_OneRunsSetSurvives ==
    \A c, d \in Callers :
        /\ c # d
        /\ Returned(c) /\ Returned(d)
        /\ call[c].entry = "analyzeAndUpdateGame" /\ call[d].entry = "analyzeAndUpdateGame"
        /\ call[c].gameId = call[d].gameId
        => \/ getWhyFactors(call[c].gameId) = whyFactorInserts(call[c].gameId, call[c].result)
           \/ getWhyFactors(call[c].gameId) = whyFactorInserts(call[d].gameId, call[d].result)

\* C15: every call of analyzeGame eventually completes, by returning or by
\* throwing, also when the AI scoring service never responds.
C15_AlwaysCompletes ==
    (call["c1"].pc = "getGame") ~> (call["c1"].pc \in {"returned", "threw"})

\* the game and its rows are as they were when the call was made
EntirelyPrior(c) ==
    LET g == call[c].gameId
    IN /\ games[g] = call[c].before.games[g]
       /\ getWhyFactors(g) = RowsOf(call[c].before.whyFactors, g)

\* the game carries the call's update and its rows are the call's rows
EntirelyNew(c) ==
    LET g == call[c].gameId
    IN /\ call[c].result # Undefined
       /\ games[g] = updateGame(call[c].before.games[g],
                                GameUpdate(call[c].result, call[c].framework2))
       /\ getWhyFactors(g) = whyFactorInserts(g, call[c].result)

\* C16: when analyzeAndUpdateGame fails at one of its writes (updateGame,
\* deleteWhyFactors, createWhyFactors), the persisted state of the game is
\* entirely the prior one or entirely the new one.
C16_AtomicReplacement ==
    \A c \in Callers :
        /\ call[c].entry = "analyzeAndUpdateGame"
        /\ call[c].pc = "threw"
        /\ call[c].error = "storage error"
        /\ call[c].gameId \in DOMAIN games
        => EntirelyPrior(c) \/ EntirelyNew(c)

\* C17: the frameworkVersion that analyzeAndUpdateGame persists with a pick is
\* the version of the framework whose weights produced that pick, also when the
\* active framework is changed while the call is running.
C17_VersionOfWeightsUsed ==
    \A c \in Callers :
        Persisted(c) /\ call[c].result.pick # "" =>
            games[call[c].gameId].frameworkVersion = Num(call[c].framework.version)

\* the ids of the collected games are in the order of the fetched list
RECURSIVE InOrderOf(_, _)
InOrderOf(results, gs) ==
    IF results = <<>> THEN TRUE
    ELSE IF gs = <<>> THEN FALSE
    ELSE IF Head(results).id = Head(gs) THEN InOrderOf(Tail(results), Tail(gs))
    ELSE InOrderOf(results, Tail(gs))

\* the step in which the loop of analyzeSlate leaves game i: the call for game i
\* has returned with all its writes made, its game is collected exactly when
\* updateGame returned a row, and only now does the call for game i+1 begin
SlateMovesOn ==
    LET i == slateRun.i
        c == call["c1"]
    IN slateRun.pc = "await" /\ slateRun'.i # i /\ slateRun'.pc # "threw" =>
        /\ c.owner = "slate"
        /\ c.gameId = slateRun.games[i]
        /\ c.pc = "returned"
        /\ getWhyFactors(c.gameId) = whyFactorInserts(c.gameId, c.result)
        /\ c.gameId \in DOMAIN games =>
                games[c.gameId] = updateGame(games[c.gameId], GameUpdate(c.result, c.framework2))
        /\ slateRun'.i = i + 1
        /\ slateRun'.results =
                IF c.updatedGame # Undefined
                THEN Append(slateRun.results, [id |-> c.gameId, game |-> c.updatedGame])
                ELSE slateRun.results
        /\ IF i < Len(slateRun.games)
           THEN /\ slateRun'.pc = "await"
                /\ call'["c1"].pc = "getGame"
                /\ call'["c1"].gameId = slateRun.games[i + 1]
           ELSE slateRun'.pc = "returned"

\* C18: within one analyzeSlate call the games are processed one after another
\* in the order the store returned them: the call for game i+1 starts only after
\* all writes for game i are made, and the list returned has exactly the games
\* whose update returned a game, in that order.
C18_SequentialInOrder ==
    /\ [](/\ InOrderOf(slateRun.results, slateRun.games)
          /\ slateRun.pc = "await" =>
                /\ call["c1"].owner = "slate"
                /\ call["c1"].gameId = slateRun.games[slateRun.i]
                /\ call["c2"].pc = "idle")
    /\ [][SlateMovesOn]_vars

\* a slate of three games returned with the first and the third: the second was
\* deleted while it was analyzed, and its update returned no row
C18_Witness ==
    /\ slateRun.pc = "returned"
    /\ Len(slateRun.games) = 3
    /\ Len(slateRun.results) = 2
    /\ slateRun.results[1].id = slateRun.games[1]
    /\ slateRun.results[2].id = slateRun.games[3]

NonZero(weights) == {f \in DOMAIN weights : weights[f] # 0}

RECURSIVE SumWeights(_, _)
SumWeights(weights, S) ==
    IF S = {} THEN 0
    ELSE LET f == CHOOSE x \in S : TRUE
         IN weights[f] + SumWeights(weights, S \ {f})

Without(weights, f) == [x \in DOMAIN weights \ {f} |-> weights[x]]

\* the WhyFactors of a result for a factor name
WhyOf(result, f) == {i \in 1..Len(result.whyFactors) : result.whyFactors[i].category = f}

\* every factor of non-zero weight has exactly one WhyFactor, and totalWeight is
\* the sum of the non-zero weights
OncePerFactor(c) ==
    LET w == call[c].framework.weights
        r == call[c].result
    IN /\ \A f \in NonZero(w) : Cardinality(WhyOf(r, f)) = 1
       /\ Len(r.whyFactors) = Cardinality(NonZero(w))
       /\ call[c].totalWeight = SumWeights(w, NonZero(w))

\* factor f has the neutral WhyFactor and the totals are those of the mapping
\* without f
NeutralUnscored(c, f) ==
    LET w == call[c].framework.weights
        r == call[c].result
        r0 == Analysis(call[c].game, Without(w, f), call[c].factorScores)
    IN /\ \A i \in WhyOf(r, f) :
            /\ r.whyFactors[i].favoredTeam = "neutral"
            /\ r.whyFactors[i].featureValue = Num(10)
            /\ r.whyFactors[i].contribution = Num(0)
       /\ r.totalHomeScore = r0.totalHomeScore
       /\ r.totalAwayScore = r0.totalAwayScore

\* C19 as stated: in a result with a pick every factor name of non-zero weight
\* yields exactly one WhyFactor and adds its weight to totalWeight once, and every
\* such factor without a FactorScore of its name adds nothing to the totals and
\* has a neutral WhyFactor with featureValue 5 and contribution 0.
C19_EveryUnscoredNeutral ==
    \A c \in Callers :
        Returned(c) /\ call[c].result.pick # "" =>
            /\ OncePerFactor(c)
            /\ \A f \in NonZero(call[c].framework.weights) :
                    FindScore(call[c].factorScores, f) = 0 => NeutralUnscored(c, f)

\* C19 as amended: the same for every factor name other than homeField; homeField
\* of non-zero weight yields its one fixed WhyFactor (featureValue 7, contribution
\* 1.5 * weight / 100, favoring home) and adds that contribution to
\* totalHomeScore.
C19_UnscoredNeutralBarHomeField ==
    \A c \in Callers :
        Returned(c) /\ call[c].result.pick # "" =>
            LET w == call[c].framework.weights
                r == call[c].result
            IN /\ OncePerFactor(c)
               /\ \A f \in NonZero(w) \ {"homeField"} :
                     FindScore(call[c].factorScores, f) = 0 => NeutralUnscored(c, f)
               /\ "homeField" \in NonZero(w) =>
                     \A i \in WhyOf(r, "homeField") :
                        /\ r.whyFactors[i].favoredTeam = "home"
                        /\ r.whyFactors[i].featureValue = Num(14)
                        /\ r.whyFactors[i].contribution = Num(15 * w["homeField"])

\* a pick under a mapping with an unknown name: "momentum" has no FactorScore and
\* gets the neutral WhyFactor next to the scored qbRating
C19_Witness ==
    \E c \in Callers :
        /\ Returned(c) /\ call[c].result.pick # ""
        /\ call[c].framework.weights = ("momentum" :> 10) @@ ("qbRating" :> 90)
        /\ FindScore(call[c].factorScores, "qbRating") # 0
        /\ call[c].totalWeight = 100
        /\ \E i \in WhyOf(call[c].result, "momentum") :
                call[c].result.whyFactors[i].favoredTeam = "neutral"

\* analyzeAndUpdateGame has returned after writing the rows of its result
RowsWritten(c) ==
    /\ call[c].entry = "analyzeAndUpdateGame"
    /\ Returned(c)
    /\ call[c].result # Undefined

\* the side the thresholds give for the scores of FactorScore fs under weight w
\* (net in thousandths; a score that is not a number gives NaN, which is
\* neither above 0.05 nor below -0.05)
SideOf(fs, w) ==
    LET known == IsNum(fs.homeScore) /\ IsNum(fs.awayScore)
        net == (fs.homeScore.v - fs.awayScore.v) * w
    IN CASE known /\ net > 50 -> "home"
         [] known /\ net < -50 -> "away"
         [] OTHER -> "neutral"

\* C20: for every scored factor favoredTeam is "home" iff netContribution > 0.05,
\* "away" iff netContribution < -0.05 and "neutral" otherwise, the boundaries
\* included; and the persisted row of a WhyFactor carries uncertaintyFlags =
\* ["Inconclusive evidence"] exactly when its favoredTeam is "neutral".
C20_FavoredTeamAndFlag ==
    \A c \in Callers :
        RowsWritten(c) =>
            LET r == call[c].result
                w == call[c].framework.weights
                fs == call[c].factorScores
                rows == getWhyFactors(call[c].gameId)
            IN /\ Len(rows) = Len(r.whyFactors)
               /\ \A i \in 1..Len(r.whyFactors) :
                    LET wf == r.whyFactors[i]
                        j == FindScore(fs, wf.category)
                    IN /\ rows[i].category = wf.category
                       /\ (rows[i].uncertaintyFlags = <<"Inconclusive evidence">>)
                              <=> (wf.favoredTeam = "neutral")
                       /\ rows[i].uncertaintyFlags \in {<<"Inconclusive evidence">>, <<>>}
                       /\ (wf.category # "homeField" /\ wf.category \in DOMAIN w /\ j # 0)
                              => wf.favoredTeam = SideOf(fs[j], w[wf.category])

\* a scored factor exactly on the boundary: defense scored 5 against 10 under
\* weight 10 has netContribution -0.05, is neutral and its row carries the flag
C20_Witness ==
    \E c \in Callers :
        /\ RowsWritten(c)
        /\ call[c].framework.weights = ("qbRating" :> 90) @@ ("defense" :> 10)
        /\ \E i \in 1..Len(call[c].result.whyFactors) :
              LET wf == call[c].result.whyFactors[i]
                  j == FindScore(call[c].factorScores, "defense")
              IN /\ wf.category = "defense"
                 /\ j # 0
                 /\ wf.contribution = Num(-50)
                 /\ wf.favoredTeam = "neutral"
                 /\ getWhyFactors(call[c].gameId)[i].uncertaintyFlags = <<"Inconclusive evidence">>

\* a FactorScore whose category is a factor of non-zero weight that the loop
\* looks up
Contributing(weights, factorScores) ==
    {i \in 1..Len(factorScores) :
        /\ factorScores[i].category \in DOMAIN weights
        /\ factorScores[i].category # "homeField"
        /\ weights[factorScores[i].category] # 0}

\* C21: analyzeGame returns the insufficient-evidence sentinel whenever nothing
\* contributed to the totals: every result with a non-empty pick has a positive
\* home-field weight or at least one FactorScore that matched a factor of
\* non-zero weight.
C21_PickNeedsContribution ==
    \A c \in Callers :
        (Returned(c) /\ call[c].entry = "analyzeGame" /\ call[c].result.pick # "") =>
            \/ HomeFieldWeight(call[c].framework.weights) > 0
            \/ Contributing(call[c].framework.weights, call[c].factorScores) # {}

\* analyzeGame has returned a result with a pick, computed from valid scores
ValidPick(c) ==
    /\ Returned(c)
    /\ call[c].result.pick # ""
    /\ ValidScores(call[c].factorScores)

BandWidth(result) == result.confidenceHigh.v - result.confidenceLow.v

\* C22 as stated: for every non-sentinel result the confidence band is 16 points
\* wide, confidenceHigh - confidenceLow = 16, for every baseConfidence in
\* [50, 90], those above 87 included.
C22_BandSixteenWide ==
    \A c \in Callers : ValidPick(c) => BandWidth(call[c].result) = 16

\* C22 as amended: baseConfidence is in [50, 90]; the band is 16 points wide
\* whenever baseConfidence <= 87; when baseConfidence exceeds 87 confidenceHigh
\* is the cap 95 and the band is 13 to 16 points wide, 13 at baseConfidence 90.
C22_BandSixteenUnderCap ==
    \A c \in Callers :
        ValidPick(c) =>
            LET m == ConfDen(call[c].totalWeight)
                b == BaseConfidenceNum(call[c].scoreDiff.v, call[c].totalWeight)
                r == call[c].result
            IN /\ 50 * m <= b /\ b <= 90 * m
               /\ b <= 87 * m => BandWidth(r) = 16
               /\ b > 87 * m => /\ r.confidenceHigh = Num(95)
                                /\ BandWidth(r) \in 13..16
               /\ b = 90 * m => BandWidth(r) = 13

\* a pick whose baseConfidence is above 87: the band is narrower than 16
C22_Witness ==
    \E c \in Callers :
        /\ ValidPick(c)
        /\ BaseConfidenceNum(call[c].scoreDiff.v, call[c].totalWeight)
                > 87 * ConfDen(call[c].totalWeight)
        /\ BandWidth(call[c].result) < 16

\* analyzeGame has returned and its FactorScores are those of the AI response
AiScored(c) ==
    /\ Returned(c)
    /\ call[c].ai # Undefined
    /\ call[c].ai.kind = "ok"
    /\ Len(call[c].factorScores) = Len(call[c].ai.factors)

\* clamp(s, 0, 10) of a returned number s
ClampedTo10(s) == IF s < 0 THEN 0 ELSE IF s > 10 THEN 10 ELSE s

\* the FactorScore value x is what the claim gives for the returned value raw:
\* clamp(raw, 0, 10) for a number, so a number in 0..10 unchanged, and the
\* default 5 for an absent value
AsReturned(raw, x) ==
    /\ IsNum(raw) => x = Num(ClampedTo10(raw.v))
    /\ raw = JAbsent => x = Num(5)

\* C23: on the AI path each returned homeScore / awayScore s becomes
\* clamp(s, 0, 10) in the FactorScore, the default 5 being used only for an
\* absent or invalid value: every returned score in 0..10, 0 included, is
\* preserved unchanged.
C23_ReturnedScorePreserved ==
    \A c \in Callers :
        AiScored(c) =>
            \A i \in 1..Len(call[c].ai.factors) :
                /\ AsReturned(call[c].ai.factors[i].homeScore, call[c].factorScores[i].homeScore)
                /\ AsReturned(call[c].ai.factors[i].awayScore, call[c].factorScores[i].awayScore)

\* the factor names in the order the table declares them
TableOrder == <<"qbRating", "defense", "injuries", "strengthOfSchedule", "homeField",
                "motivation", "portal", "coaching", "weather", "marketMovement">>

\* a keyword of the i-th factor of the table is a substring of the lower-cased
\* category
Matches(category, i) ==
    \E k \in 1..Len(FACTOR_TO_CATEGORY[i].keywords) :
        includes(toLowerCase(category), FACTOR_TO_CATEGORY[i].keywords[k])

MatchesAny(category) == \E i \in 1..Len(TableOrder) : Matches(category, i)

\* the FactorScores of the call are those of heuristicScore
HeuristicScored(c) ==
    /\ Returned(c)
    /\ call[c].ai # Undefined
    /\ call[c].ai.kind # "ok"

\* C24: mapEvidenceCategoryToFactor returns the first factor, in table-declaration
\* order, one of whose keywords is a substring of the lower-cased category, and
\* null when no keyword matches; a category matching keywords of several factors
\* maps to the earlier one, and a heuristic group mapping to null produces no
\* FactorScore.
C24_FirstFactorInTableOrder ==
    /\ \A i \in 1..Len(TableOrder) : FACTOR_TO_CATEGORY[i].factor = TableOrder[i]
    /\ \A c \in Callers :
        HeuristicScored(c) =>
            LET groups == categorizeEvidence(call[c].evidence)
                matched == SelectSeq(groups, LAMBDA g : MatchesAny(g.category))
                fs == call[c].factorScores
            IN /\ Len(fs) = Len(matched)
               /\ \A n \in 1..Len(fs) :
                    \E i \in 1..Len(TableOrder) :
                        /\ fs[n].category = TableOrder[i]
                        /\ Matches(matched[n].category, i)
                        /\ \A j \in 1..(i - 1) : ~Matches(matched[n].category, j)
               /\ \A n \in 1..Len(fs) :
                    /\ matched[n].category = toLowerCase(CatQbInjury) => fs[n].category = "qbRating"
                    /\ matched[n].category = toLowerCase(CatDefensiveLine) => fs[n].category = "defense"

\* evidence of the categories "Defensive Line" (keywords of defense and of
\* marketMovement) and "rumor" (no keyword): the one FactorScore is defense's
C24_Witness ==
    \E c \in Callers :
        /\ HeuristicScored(c)
        /\ Len(call[c].evidence) = 2
        /\ call[c].evidence[1].category = CatDefensiveLine
        /\ call[c].evidence[2].category = CatRumor
        /\ Len(call[c].factorScores) = 1
        /\ call[c].factorScores[1].category = "defense"

NoRepeat(xs) == \A i, j \in 1..Len(xs) : i # j => xs[i] # xs[j]

\* C25: each heuristic FactorScore's keyFacts holds at most 3 headlines with no
\* repeated value, and its citations holds at most 3 sources with no repeated
\* value.
C25_DistinctFactsAndCitations ==
    \A c \in Callers :
        HeuristicScored(c) =>
            \A n \in 1..Len(call[c].factorScores) :
                LET fs == call[c].factorScores[n]
                IN /\ Len(fs.keyFacts) <= 3 /\ NoRepeat(fs.keyFacts)
                   /\ Len(fs.citations) <= 3 /\ NoRepeat(fs.citations)

\* C26: after any sequence of framework create, update and delete operations at
\* most one framework has isActive = true, so getActiveFramework has a unique
\* framework to return.
C26_AtMostOneActive == Cardinality(ActiveFrameworks) <= 1

\* analyzeAndUpdateGame has just written the game row of its game, which
\* existed when the call was made
JustUpdated(c) ==
    /\ call[c].entry = "analyzeAndUpdateGame"
    /\ call[c].pc \in {"deleteWhyFactors", "createWhyFactors"}
    /\ call[c].gameId \in DOMAIN games
    /\ call[c].gameId \in DOMAIN call[c].before.games

\* the user has locked or overridden the pick of the row
HeldByUser(row) == row.pick # null /\ (row.isLocked \/ row.status = "override")

\* C27: a pick the user has locked (isLocked = true) or overridden (status
\* "override") is not changed by analysis: analyzeAndUpdateGame leaves pick,
\* confidenceLow, confidenceHigh and status of such a game unchanged, and in
\* every case leaves isLocked, overrideReason, pickLine and notes unchanged.
C27_HeldPickUntouched ==
    \A c \in Callers :
        JustUpdated(c) =>
            LET was == call[c].before.games[call[c].gameId]
                now == games[call[c].gameId]
            IN /\ now.isLocked = was.isLocked
               /\ now.overrideReason = was.overrideReason
               /\ now.pickLine = was.pickLine
               /\ now.notes = was.notes
               /\ HeldByUser(was) =>
                     /\ now.pick = was.pick
                     /\ now.confidenceLow = was.confidenceLow
                     /\ now.confidenceHigh = was.confidenceHigh
                     /\ now.status = was.status

\* the games stored for slate s
GamesOf(s) == {g \in DOMAIN games : games[g].slateId = s}

\* C28: after any sequence of add-game, batch-add-games and delete-game requests
\* on a slate, the slate's stored gameCount equals the number of games currently
\* stored for that slate.
C28_GameCountIsCount ==
    \A s \in DOMAIN slates : slates[s].gameCount = Cardinality(GamesOf(s))

\* no game of slate s, and not the slate, has status "enriching" after the step
NoneEnrichingAfter(s) ==
    /\ slates'[s].status # "enriching"
    /\ \A g \in DOMAIN games' : games'[g].slateId = s => games'[g].status # "enriching"

C30_ExportLockedAtStoredScale ==
    \A s \in DOMAIN slates :
        LET rows == exportSlate(s)
        IN /\ \A g \in GamesOf(s) :
                Cardinality({i \in 1..Len(rows) : rows[i].game = g})
                    = IF games[g].isLocked THEN 1 ELSE 0
           /\ \A i \in 1..Len(rows) :
                LET game == games[rows[i].game]
                IN (IsNum(game.confidenceLow) /\ IsNum(game.confidenceHigh)
                        /\ game.confidenceLow.v > 0 /\ game.confidenceHigh.v > 0) =>
                      /\ rows[i].confidence.text = "low-high%"
                      /\ rows[i].confidence.low = game.confidenceLow.v
                      /\ rows[i].confidence.high = game.confidenceHigh.v

====
